---- MODULE Spec2Model ----
(***************************************************************************)
(* Model of the incremental watcher of src/watcher.py and of the           *)
(* conversation navigator of src/models.py.                                *)
(*                                                                         *)
(* Watcher: ConversationWatcher (start / stop / _on_change / _process),    *)
(* the threading.Timer threads it creates, the log file it reloads with    *)
(* load_session, and the external writer that changes the file.            *)
(* Threads: the caller of start(), the caller of stop(), the watchdog      *)
(* observer thread (runs _on_change, one call at a time), and one thread   *)
(* per threading.Timer (runs _process when the timer expires).             *)
(*   Spec        the life of one watcher as main() runs it: one start(),   *)
(*               and one stop() of the running watcher                     *)
(*   SpecPartial the same watcher on a file whose lines are each written   *)
(*               partially and completed later                             *)
(*   SpecStop    the same watcher with stop() called any number of times   *)
(*                                                                         *)
(* Navigator: Conversation with its lazily built _TreeIndex and the        *)
(* queries leaves, walk_path and active_leaf.                              *)
(*   SpecNav     the queries on every bounded record sequence              *)
(*   SpecConv    the queries on a Conversation whose record list grows     *)
(*   SpecLive    the watcher that is never stopped, with the fairness of   *)
(*               the clock and of the Timer threads                        *)
(*                                                                         *)
(* Log Reader and Log Writer: Conversation.from_jsonl, load_session,       *)
(* Session.from_messages / to_jsonl / save, and fork_session.              *)
(*   SpecRead    from_jsonl and load_session on every bounded file         *)
(*   SpecWrite   a Session built from messages, saved, loaded, navigated   *)
(*               and forked                                                *)
(*                                                                         *)
(* Further specifications of the watcher:                                  *)
(*   SpecDeliver the watcher that is never stopped, with the fairness of   *)
(*               the clock and of every step of the Timer threads          *)
(*   SpecGrow    the watcher on a file that only grows                     *)
(*                                                                         *)
(* Callers of the core:                                                    *)
(*   SpecApi     get_leaves and get_messages of src/api/server.py and the  *)
(*               navigator on logs with records of every type              *)
(*   SpecBridge  bridge_loop of src/server.py                              *)
(*   SpecAudio   the tasks receive and play of src/live.py in mic mode     *)
(***************************************************************************)
EXTENDS Integers, Sequences, FiniteSets, TLC

\* ---------------------------------------------------------------- bounds
MaxTimers == 2      \* number of change notifications (Timer objects) explored
MaxFile   == 2      \* lines in the log file
MaxWrites == 1      \* operations of the external writer explored
MaxRecords == 3     \* records in the log of a Conversation
MaxIds    == 3      \* distinct identifiers in a log

\* debounce_delay (0.3 s by default), in clock ticks
DebounceTicks == 2

\* ------------------------------------------------------------- the file
\* A line of the log file: "A" decodes to an AssistantEntry, "U" decodes to
\* an entry of another kind, "X" is not valid JSON or fails validation
\* (for instance a partially written line), "B" is blank.
LineKinds == {"A", "U", "X", "B"}

VARIABLES
    file,       \* [exists, lines]: the watched log file
    writes,     \* operations of the external writer so far
    count,      \* self._count
    running,    \* self._running
    observer,   \* self._observer: "none", "watching" or "stopped"
    timerRef,   \* self._debounce_timer: 0 for None, else an index of timers
    timers,     \* the Timer objects created so far, each with its thread
    startPc,    \* position of the thread that called start()
    stopPc,     \* position of the thread that is inside stop()
    stopReturned, \* a call of stop() has returned
    lastPos,    \* 0-based file position of the entry of the latest handler
                \* invocation, -1 before the first
    delivered,  \* the file positions given to the handler so far
    inFlightAtStop, \* the timers whose pass was inside _process when stop()
                \* was called on the running watcher
    records,    \* Conversation.records of the Conversation object
    tree_cache, \* Conversation._tree_cache: <<>> for None, else <<index>>
    answer,     \* what the latest navigator query returned
    session,    \* the Session object built by Session.from_messages
    forkFile    \* [exists, lines]: the log file that fork_session wrote

\* the Conversation object of src/models.py
convVars == <<records, tree_cache, answer>>

vars == <<file, writes, count, running, observer, timerRef, timers,
          startPc, stopPc, stopReturned, lastPos, delivered, inFlightAtStop,
          convVars, session, forkFile>>

\* the objects of the Log Writer
writerVars == <<session, forkFile>>

\* ------------------------------------------------------ pure functions
RECURSIVE Decoded(_)
\* the entries of the non-blank lines, in line order
Decoded(lines) ==
    IF lines = <<>> THEN <<>>
    ELSE IF Head(lines) = "B" THEN Decoded(Tail(lines))
    ELSE <<Head(lines)>> \o Decoded(Tail(lines))

\* load_session: None when the file cannot be read or any non-blank line
\* fails json.loads / validate_python, else the list of entries
load_session(f) ==
    IF ~f.exists \/ (\E k \in 1..Len(f.lines) : f.lines[k] = "X")
    THEN [ok |-> FALSE, entries |-> <<>>]
    ELSE [ok |-> TRUE, entries |-> Decoded(f.lines)]

RECURSIVE NextAssistant(_, _)
\* the first 0-based position >= p of entries that holds an AssistantEntry,
\* Len(entries) when there is none: the loop of _process skips the others
NextAssistant(entries, p) ==
    IF p >= Len(entries) THEN Len(entries)
    ELSE IF entries[p + 1] = "A" THEN p
    ELSE NextAssistant(entries, p + 1)

\* ------------------------------------------------------- Timer objects
\* A Timer object and its thread.  st: "waiting" (started, its function not
\* yet called), "cancelled", "running" (_process was called) or "done"; age:
\* clock ticks since it was created, counted up to DebounceTicks while the
\* timer waits or is the newest one; gap: its age when the next notification
\* arrived, -1 while it is the newest timer; pc, entries, c, base, i, made,
\* raised: the position and the locals of its _process call (c: _count as
\* read at line 154, base: _count as read at line 158, i: 0-based position of
\* the loop, made: positions this pass gave the handler, raised: a handler
\* call of this pass raised and was reported at lines 162-163).  The locals
\* are dropped when the call returns; pc keeps how it ended: "failed" (line
\* 152), "noop" (line 155), "completed" (line 165) or "recovered" (line 165,
\* after a handler call of the pass had raised).
NoPass == [pc |-> "-", entries |-> <<>>, c |-> 0, base |-> 0, i |-> 0,
           made |-> <<>>, raised |-> FALSE]

NewTimer == [st |-> "waiting", age |-> 0, gap |-> -1] @@ NoPass

Returned(tm, how) ==
    [st |-> "done", age |-> tm.age, gap |-> tm.gap] @@ [NoPass EXCEPT !.pc = how]

\* ------------------------------------------- the Conversation navigator
\* Model of Conversation and _TreeIndex of src/models.py.  Identifiers
\* (uuid, parentUuid, leafUuid) are the non-empty strings 1..MaxIds, Null
\* is None.  An entry object is named by its position in records.
Ids == 1..MaxIds

Null == 0

\* the empty string, as a parentUuid or leafUuid
Empty == -1

\* the truth value Python gives an identifier: None and "" are false
Falsy(x) == x = Null \/ x = Empty

\* the record types _TreeIndex.build accepts
TreeKinds == {"user", "assistant", "progress", "system"}

\* the records a log is drawn from: tree entries, SummaryEntry records, and
\* a record of another type (FileHistorySnapshot)
TreeEntries ==
    [kind : {"user"}, uuid : Ids, parentUuid : Ids \cup {Null}, leafUuid : {Null}]

SummaryEntries ==
    [kind : {"summary"}, uuid : {Null}, parentUuid : {Null}, leafUuid : Ids \cup {Null}]

OtherEntries ==
    [kind : {"file-history-snapshot"}, uuid : {Null}, parentUuid : {Null}, leafUuid : {Null}]

SessionEntry == TreeEntries \cup SummaryEntries \cup OtherEntries

Last(s) == s[Len(s)]

RECURSIVE BuildLoop_IndexesSummaries(_, _, _)
\* build that takes every record with a uuid field, SummaryEntry records
\* included, for a tree entry
BuildLoop_IndexesSummaries(recs, k, t) ==
    IF k > Len(recs) THEN t
    ELSE LET r == recs[k] IN
         IF r.kind \notin (TreeKinds \cup {"summary"})
         THEN BuildLoop_IndexesSummaries(recs, k + 1, t)
         ELSE BuildLoop_IndexesSummaries(recs, k + 1,
                [keys |-> IF t.by_uuid[r.uuid] = <<>>
                          THEN Append(t.keys, r.uuid) ELSE t.keys,
                 by_uuid |-> [t.by_uuid EXCEPT ![r.uuid] = Append(@, k)],
                 parent_refs |-> IF ~Falsy(r.parentUuid)
                                 THEN t.parent_refs \cup {r.parentUuid}
                                 ELSE t.parent_refs])

RECURSIVE BuildLoop(_, _, _)
\* the loop of _TreeIndex.build from record k on; keys is the insertion
\* order of the dict by_uuid, by_uuid[u] = <<>> stands for u not being a key
BuildLoop(recs, k, t) ==
    IF k > Len(recs) THEN t
    ELSE LET r == recs[k] IN
         IF r.kind \notin TreeKinds THEN BuildLoop(recs, k + 1, t)
         ELSE BuildLoop(recs, k + 1,
                [keys |-> IF t.by_uuid[r.uuid] = <<>>
                          THEN Append(t.keys, r.uuid) ELSE t.keys,
                 by_uuid |-> [t.by_uuid EXCEPT ![r.uuid] = Append(@, k)],
                 parent_refs |-> IF ~Falsy(r.parentUuid)
                                 THEN t.parent_refs \cup {r.parentUuid}
                                 ELSE t.parent_refs])

\* the identifiers a log can look up in by_uuid: those of Ids and those its
\* records mention
KeySpace(recs) ==
    Ids \cup UNION {IF recs[k].kind \in TreeKinds
                      THEN {recs[k].uuid, recs[k].parentUuid}
                      ELSE IF recs[k].kind = "summary" THEN {recs[k].leafUuid}
                      ELSE {} : k \in 1..Len(recs)}

\* _TreeIndex.build
build(recs) ==
    BuildLoop(recs, 1, [keys |-> <<>>, by_uuid |-> [u \in KeySpace(recs) |-> <<>>],
                        parent_refs |-> {}])

RECURSIVE LeavesFrom(_, _)
\* the list comprehension of Conversation.leaves from key k on
LeavesFrom(t, k) ==
    IF k > Len(t.keys) THEN <<>>
    ELSE IF t.keys[k] \notin t.parent_refs
         THEN <<Last(t.by_uuid[t.keys[k]])>> \o LeavesFrom(t, k + 1)
         ELSE LeavesFrom(t, k + 1)

\* leaves that returns the entry of every key of by_uuid
leaves_AllKeys(t) == [k \in 1..Len(t.keys) |-> Last(t.by_uuid[t.keys[k]])]

\* Conversation.leaves on the index t
leaves(t) == LeavesFrom(t, 1)

RECURSIVE WalkLoop_NoSeen(_, _, _, _, _, _)
\* the loop of walk_path without the test "uid not in seen"
WalkLoop_NoSeen(t, recs, uid, seen, path, fuel) ==
    IF Falsy(uid) THEN [path |-> path, ended |-> TRUE]
    ELSE IF fuel = 0 THEN [path |-> path, ended |-> FALSE]
    ELSE LET elist == t.by_uuid[uid] IN
         IF elist = <<>> THEN [path |-> path, ended |-> TRUE]
         ELSE WalkLoop_NoSeen(t, recs, recs[Last(elist)].parentUuid, seen \cup {uid},
                              Append(path, Last(elist)), fuel - 1)

RECURSIVE WalkLoop(_, _, _, _, _, _)
\* the while loop of Conversation.walk_path, followed for at most fuel
\* iterations; ended tells that the loop has exited
WalkLoop(t, recs, uid, seen, path, fuel) ==
    IF Falsy(uid) \/ uid \in seen THEN [path |-> path, ended |-> TRUE]
    ELSE IF fuel = 0 THEN [path |-> path, ended |-> FALSE]
    ELSE LET elist == t.by_uuid[uid] IN
         IF elist = <<>> THEN [path |-> path, ended |-> TRUE]
         ELSE WalkLoop(t, recs, recs[Last(elist)].parentUuid, seen \cup {uid},
                       Append(path, Last(elist)), fuel - 1)

\* walk_path that gives up, for an empty path, when a parent does not resolve
walk_path_EmptyOnBreak(t, recs, leaf_uuid) ==
    LET w == WalkLoop(t, recs, leaf_uuid, {}, <<>>, Len(recs) + 1)
        p == IF w.path = <<>> THEN Null ELSE recs[Last(w.path)].parentUuid
    IN  IF ~Falsy(p) /\ t.by_uuid[p] = <<>>
        THEN [path |-> <<>>, ended |-> TRUE]
        ELSE w

\* Conversation.walk_path on the index t
walk_path(t, recs, leaf_uuid) ==
    WalkLoop(t, recs, leaf_uuid, {}, <<>>, Len(recs) + 1)

RECURSIVE SummaryScan_NoSkip(_, _, _)
\* the scan of active_leaf giving up at the first SummaryEntry it meets
\* when the leafUuid of that one does not resolve
SummaryScan_NoSkip(t, recs, k) ==
    IF k = 0 THEN 0
    ELSE IF recs[k].kind = "summary"
         THEN IF ~Falsy(recs[k].leafUuid) /\ t.by_uuid[recs[k].leafUuid] # <<>>
              THEN Last(t.by_uuid[recs[k].leafUuid])
              ELSE 0
         ELSE SummaryScan_NoSkip(t, recs, k - 1)

RECURSIVE SummaryScan(_, _, _)
\* the loop over reversed(self.records) of active_leaf from record k down:
\* the entry of the first SummaryEntry whose leafUuid is a key of by_uuid, 0
\* when there is none
SummaryScan(t, recs, k) ==
    IF k = 0 THEN 0
    ELSE IF /\ recs[k].kind = "summary"
            /\ ~Falsy(recs[k].leafUuid)
            /\ t.by_uuid[recs[k].leafUuid] # <<>>
         THEN Last(t.by_uuid[recs[k].leafUuid])
         ELSE SummaryScan(t, recs, k - 1)

RECURSIVE MaxByPath_LastMax(_, _, _, _, _)
\* a max that returns the last of the elements with the greatest key
MaxByPath_LastMax(t, recs, ls, k, best) ==
    IF k > Len(ls) THEN best
    ELSE IF Len(walk_path(t, recs, recs[ls[k]].uuid).path)
              >= Len(walk_path(t, recs, recs[best].uuid).path)
         THEN MaxByPath_LastMax(t, recs, ls, k + 1, ls[k])
         ELSE MaxByPath_LastMax(t, recs, ls, k + 1, best)

RECURSIVE MaxByPath(_, _, _, _, _)
\* max(all_leaves, key = len(walk_path(e.uuid))) from element k on: the first
\* element with the greatest key
MaxByPath(t, recs, ls, k, best) ==
    IF k > Len(ls) THEN best
    ELSE IF Len(walk_path(t, recs, recs[ls[k]].uuid).path)
              > Len(walk_path(t, recs, recs[best].uuid).path)
         THEN MaxByPath(t, recs, ls, k + 1, ls[k])
         ELSE MaxByPath(t, recs, ls, k + 1, best)

\* active_leaf without the test "if not all_leaves": max() of an empty list
\* raises ValueError, shown as -1
active_leaf_NoEmptyTest(t, recs) ==
    LET s == SummaryScan(t, recs, Len(recs)) IN
    IF s # 0 THEN s
    ELSE LET all_leaves == leaves(t) IN
         IF all_leaves = <<>> THEN -1
         ELSE MaxByPath(t, recs, all_leaves, 2, all_leaves[1])

\* active_leaf that gives up (None) on a log with more than one root
active_leaf_SingleRoot(t, recs) ==
    LET s == SummaryScan(t, recs, Len(recs))
        roots == {k \in 1..Len(recs) :
                     recs[k].kind \in TreeKinds /\ recs[k].parentUuid = Null}
    IN
    IF s # 0 THEN s
    ELSE LET all_leaves == leaves(t) IN
         IF all_leaves = <<>> \/ Cardinality(roots) > 1 THEN 0
         ELSE MaxByPath(t, recs, all_leaves, 2, all_leaves[1])

\* Conversation.active_leaf on the index t, 0 for None
active_leaf(t, recs) ==
    LET s == SummaryScan(t, recs, Len(recs)) IN
    IF s # 0 THEN s
    ELSE LET all_leaves == leaves(t) IN
         IF all_leaves = <<>> THEN 0
         ELSE MaxByPath(t, recs, all_leaves, 2, all_leaves[1])

\* no query has been made; error names the exception a call has raised
NoAnswer == [q |-> "none", arg |-> Null, path |-> <<>>, entry |-> 0, ended |-> TRUE,
             error |-> "none"]

\* no Session has been constructed; messages is the argument that
\* from_messages was called with
NoSession == [session_id |-> Null, entries |-> <<>>, messages |-> <<>>]

\* a file that does not exist
NoFile == [exists |-> FALSE, lines |-> <<>>]

\* ------------------------------------------------------------- Init
InitFiles ==
    {[exists |-> FALSE, lines |-> <<>>]} \cup
    {[exists |-> TRUE, lines |-> l] : l \in {<<>>, <<"X">>, <<"B", "A">>}}

Init ==
    /\ file \in InitFiles
    /\ writes = 0
    /\ count = 0
    /\ running = FALSE
    /\ observer = "none"
    /\ timerRef = 0
    /\ timers = <<>>
    /\ startPc = "init"
    /\ stopPc = "idle"
    /\ stopReturned = FALSE
    /\ lastPos = -1
    /\ delivered = {}
    /\ inFlightAtStop = {}
    /\ records = <<>>
    /\ tree_cache = <<>>
    /\ answer = NoAnswer
    /\ session = NoSession
    /\ forkFile = NoFile

\* ------------------------------------------------- the external writer
watcherVars == <<count, running, observer, timerRef, timers, startPc, stopPc,
                 stopReturned, lastPos, delivered, inFlightAtStop>>

\* what a single write can append: 1..n lines of one kind
Batches(n) ==
    {[j \in 1..k |-> l] : k \in 1..n, l \in LineKinds \ {"B"}}

\* another process appends one or more lines in one write (a partial write
\* ends in "X")
WriteLines(ls) ==
    /\ writes < MaxWrites
    /\ file' = [exists |-> TRUE, lines |-> file.lines \o ls]
    /\ writes' = writes + 1
    /\ UNCHANGED <<watcherVars, convVars, writerVars>>

\* the write that left a partial last line finishes it
CompleteLine(l) ==
    /\ file.lines # <<>>
    /\ file.lines[Len(file.lines)] = "X"
    /\ file' = [file EXCEPT !.lines[Len(file.lines)] = l]
    /\ UNCHANGED <<writes, watcherVars, convVars, writerVars>>

\* the file shrinks by a line
Truncate ==
    /\ writes < MaxWrites
    /\ file.lines # <<>>
    /\ file' = [file EXCEPT !.lines = SubSeq(file.lines, 1, Len(file.lines) - 1)]
    /\ writes' = writes + 1
    /\ UNCHANGED <<watcherVars, convVars, writerVars>>

\* the file is removed
Unlink ==
    /\ writes < MaxWrites
    /\ file.exists
    /\ file' = [exists |-> FALSE, lines |-> <<>>]
    /\ writes' = writes + 1
    /\ UNCHANGED <<watcherVars, convVars, writerVars>>

\* the timers whose age is still counted
Ageing(t) ==
    /\ timers[t].age < DebounceTicks
    /\ timers[t].st = "waiting" \/ t = timerRef

\* a clock tick
Tick ==
    /\ \E t \in 1..Len(timers) : Ageing(t)
    /\ timers' = [t \in 1..Len(timers) |->
                    IF Ageing(t) THEN [timers[t] EXCEPT !.age = @ + 1] ELSE timers[t]]
    /\ UNCHANGED <<file, writes, count, running, observer, timerRef, startPc,
                   stopPc, stopReturned, lastPos, delivered, inFlightAtStop, convVars, writerVars>>

\* ------------------------------------------------------------ start()
\* start() that goes on with an empty list when the first load fails
StartLoad_IgnoresFailure ==
    /\ startPc = "init"
    /\ ~running
    /\ count' = Len(load_session(file).entries)
    /\ running' = TRUE
    /\ startPc' = "loaded"
    /\ UNCHANGED <<file, writes, observer, timerRef, timers, stopPc,
                   stopReturned, lastPos, delivered, inFlightAtStop, convVars, writerVars>>

\* lines 104-113: the blocking first load; sys.exit(1) when it fails
StartLoad ==
    /\ startPc = "init"
    /\ ~running
    /\ LET r == load_session(file) IN
        IF ~r.ok
        THEN /\ startPc' = "failed"
             /\ UNCHANGED <<count, running>>
        ELSE /\ count' = Len(r.entries)
             /\ running' = TRUE
             /\ startPc' = "loaded"
    /\ UNCHANGED <<file, writes, observer, timerRef, timers, stopPc,
                   stopReturned, lastPos, delivered, inFlightAtStop, convVars, writerVars>>

\* lines 115-119: the filesystem watch is scheduled and started
StartObserve ==
    /\ startPc = "loaded"
    /\ observer' = "watching"
    /\ startPc' = "joining"
    /\ UNCHANGED <<file, writes, count, running, timerRef, timers, stopPc,
                   stopReturned, lastPos, delivered, inFlightAtStop, convVars, writerVars>>

\* ------------------------------------------------------------- stop()
\* Timer.cancel(): sets the finished event; a timer whose function has
\* already been called is not affected
Cancelled(ts, t) ==
    IF t # 0 /\ ts[t].st = "waiting" THEN [ts EXCEPT ![t].st = "cancelled"] ELSE ts

\* stop() is called while start() is in its join loop (lines 125-127), by
\* the KeyboardInterrupt handler of line 129 or from another thread; lines
\* 133-135: _running is cleared and the pending timer cancelled
StopCancel ==
    /\ stopPc = "idle"
    /\ startPc = "joining"
    /\ running
    /\ running' = FALSE
    /\ timers' = Cancelled(timers, timerRef)
    /\ stopPc' = "observer"
    /\ inFlightAtStop' = {t \in 1..Len(timers) : timers[t].st = "running"}
    /\ UNCHANGED <<file, writes, count, observer, timerRef, startPc, stopReturned,
                   lastPos, delivered, convVars, writerVars>>

\* lines 136-139: the observer thread is stopped and joined, stop() returns;
\* with _running False the join loop of start() ends too (lines 126-129)
StopObserver ==
    /\ stopPc = "observer"
    /\ observer' = IF observer = "none" THEN "none" ELSE "stopped"
    /\ stopPc' = "idle"
    /\ stopReturned' = TRUE
    /\ startPc' = "returned"
    /\ UNCHANGED <<file, writes, count, running, timerRef, timers,
                   lastPos, delivered, inFlightAtStop, convVars, writerVars>>

\* -------------------------------------------------------- _on_change()
\* the previous timer is no longer the newest one
Superseded(ts, t) ==
    IF t # 0 THEN [ts EXCEPT ![t].gap = ts[t].age] ELSE ts

\* _on_change that starts a new timer without cancelling the previous one
OnChange_NoCancel ==
    /\ observer = "watching"
    /\ Len(timers) < MaxTimers
    /\ timers' = Append(Superseded(timers, timerRef), NewTimer)
    /\ timerRef' = Len(timers) + 1
    /\ UNCHANGED <<file, writes, count, running, observer, startPc, stopPc,
                   stopReturned, lastPos, delivered, inFlightAtStop, convVars, writerVars>>

\* _on_change that creates the new Timer and does not start it: its
\* function is never called
OnChange_NotStarted ==
    /\ observer = "watching"
    /\ Len(timers) < MaxTimers
    /\ timers' = Append(Superseded(Cancelled(timers, timerRef), timerRef),
                        [NewTimer EXCEPT !.st = "cancelled"])
    /\ timerRef' = Len(timers) + 1
    /\ UNCHANGED <<file, writes, count, running, observer, startPc, stopPc,
                   stopReturned, lastPos, delivered, inFlightAtStop, convVars, writerVars>>

\* lines 141-146, on the observer thread: cancel the previous timer, create
\* and start a new one
OnChange ==
    /\ observer = "watching"
    /\ Len(timers) < MaxTimers
    /\ timers' = Append(Superseded(Cancelled(timers, timerRef), timerRef), NewTimer)
    /\ timerRef' = Len(timers) + 1
    /\ UNCHANGED <<file, writes, count, running, observer, startPc, stopPc,
                   stopReturned, lastPos, delivered, inFlightAtStop, convVars, writerVars>>

\* --------------------------------------------------------- _process()
passFrame == <<file, writes, running, observer, timerRef, startPc, stopPc,
               stopReturned, inFlightAtStop, convVars, writerVars>>

\* _process that forgets the known count when the reload fails
Fire_ResetsOnFailure(t) ==
    /\ timers[t].st = "waiting"
    /\ timers[t].age >= DebounceTicks
    /\ LET r == load_session(file) IN
        /\ timers' = IF r.ok
                      THEN [timers EXCEPT ![t].st = "running", ![t].pc = "check",
                                          ![t].entries = r.entries]
                      ELSE [timers EXCEPT ![t] = Returned(@, "failed")]
        /\ count' = IF r.ok THEN count ELSE 0
    /\ UNCHANGED <<passFrame, lastPos, delivered>>

\* Timer.run: the interval has elapsed and the timer was not cancelled, so
\* _process is called; lines 150-152: the reload
Fire(t) ==
    /\ timers[t].st = "waiting"
    /\ timers[t].age >= DebounceTicks
    /\ LET r == load_session(file) IN
        timers' = IF r.ok
                  THEN [timers EXCEPT ![t].st = "running", ![t].pc = "check",
                                      ![t].entries = r.entries]
                  ELSE [timers EXCEPT ![t] = Returned(@, "failed")]
    /\ UNCHANGED <<passFrame, count, lastPos, delivered>>

\* _process that returns at line 155 only when the count is unchanged, and
\* follows a shrunken file
Check_OnlyEqual(t) ==
    /\ timers[t].pc = "check"
    /\ timers' = IF Len(timers[t].entries) = count
                 THEN [timers EXCEPT ![t] = Returned(@, "noop")]
                 ELSE [timers EXCEPT ![t].pc = "slice", ![t].c = count]
    /\ UNCHANGED <<passFrame, count, lastPos, delivered>>

\* lines 154-155
Check(t) ==
    /\ timers[t].pc = "check"
    /\ timers' = IF Len(timers[t].entries) <= count
                 THEN [timers EXCEPT ![t] = Returned(@, "noop")]
                 ELSE [timers EXCEPT ![t].pc = "slice", ![t].c = count]
    /\ UNCHANGED <<passFrame, count, lastPos, delivered>>

\* line 158: entries[self._count:] is evaluated, the loop starts
Slice(t) ==
    /\ timers[t].pc = "slice"
    /\ timers' = [timers EXCEPT ![t].pc = "loop", ![t].base = count,
                                ![t].i = NextAssistant(timers[t].entries, count)]
    /\ UNCHANGED <<passFrame, count, lastPos, delivered>>

\* lines 159-161: the handler is called with the next AssistantEntry
HandlerCall(t) ==
    /\ timers[t].pc = "loop"
    /\ timers[t].i < Len(timers[t].entries)
    /\ lastPos' = timers[t].i
    /\ delivered' = delivered \cup {timers[t].i}
    /\ timers' = [timers EXCEPT ![t].pc = "handler", ![t].made = Append(@, timers[t].i)]
    /\ UNCHANGED <<passFrame, count>>

\* _process without the try/except: a handler exception ends the pass
HandlerReturn_Propagates(t, ok) ==
    /\ timers[t].pc = "handler"
    /\ timers' = IF ok
                 THEN [timers EXCEPT ![t].pc = "loop",
                          ![t].i = NextAssistant(timers[t].entries, timers[t].i + 1)]
                 ELSE [timers EXCEPT ![t] = Returned(@, "failed")]
    /\ UNCHANGED <<passFrame, count, lastPos, delivered>>

\* the handler returns, or raises and lines 162-163 report it
HandlerReturn(t, ok) ==
    /\ timers[t].pc = "handler"
    /\ timers' = [timers EXCEPT ![t].pc = "loop",
                                ![t].i = NextAssistant(timers[t].entries, timers[t].i + 1),
                                ![t].raised = (@ \/ ~ok)]
    /\ UNCHANGED <<passFrame, count, lastPos, delivered>>

\* line 165
SetCount(t) ==
    /\ timers[t].pc = "loop"
    /\ timers[t].i >= Len(timers[t].entries)
    /\ count' = Len(timers[t].entries)
    /\ timers' = [timers EXCEPT
                    ![t] = Returned(@, IF @.raised THEN "recovered" ELSE "completed")]
    /\ UNCHANGED <<passFrame, lastPos, delivered>>

\* ------------------------------------------------------------- Next
Writer ==
    \/ \E ls \in Batches(MaxFile - Len(file.lines)) : WriteLines(ls)
    \/ \E l \in {"A", "U"} : CompleteLine(l)
    \/ Truncate
    \/ Unlink

Start == StartLoad \/ StartObserve

Stop == StopCancel \/ StopObserver

Process ==
    \E t \in 1..Len(timers) :
        \/ Fire(t)
        \/ Check(t)
        \/ Slice(t)
        \/ HandlerCall(t)
        \/ \E ok \in BOOLEAN : HandlerReturn(t, ok)
        \/ SetCount(t)

Next == Writer \/ Tick \/ Start \/ Stop \/ OnChange \/ Process

Spec == Init /\ [][Next]_vars

\* ------------------------------------------------ vocabulary of the claims
Passes == 1..Len(timers)

\* _process has been called on the thread of timer t
Started(t) == timers[t].st \in {"running", "done"}

\* the thread of timer t is inside _process
InProcess(t) == timers[t].st = "running"

\* this step is the call of _process by timer t (Timer.run, line 150)
PassStarts(t) == timers[t].st = "waiting" /\ Started(t)'

\* this step is a handler invocation by the pass of timer t (line 161)
Invokes(t) == timers[t].pc = "loop" /\ timers'[t].pc = "handler"

\* this step is the assignment of line 165 by the pass of timer t
Advances(t) == timers[t].pc = "loop" /\ timers'[t].st = "done"

RECURSIVE AssistantPositions(_, _)
\* the 0-based positions >= from of the AssistantEntry records, in order
AssistantPositions(entries, from) ==
    IF from >= Len(entries) THEN <<>>
    ELSE IF entries[from + 1] = "A"
         THEN <<from>> \o AssistantPositions(entries, from + 1)
         ELSE AssistantPositions(entries, from + 1)

\* ---------------------------------------------------------------- C1
\* C1: in every reachable state at most one _process execution is active.
C1_OnePassAtATime ==
    Cardinality({t \in Passes : InProcess(t)}) <= 1

\* ---------------------------------------------------------------- C2
\* C2: handler invocations never overlap, and every record passed to the
\* handler lies at a file position strictly after each one passed before.
C2_SequentialIncreasing ==
    [][\A t \in Passes :
         Invokes(t) =>
            /\ \A u \in Passes : timers[u].pc # "handler"
            /\ timers[t].i > lastPos
            /\ timers[t].i \notin delivered]_vars

\* ---------------------------------------------------------------- C3
\* timers t..u were created by notifications each less than a debounce
\* window after the previous one
Burst(t, u) ==
    t < u /\ \A k \in t..(u - 1) : timers[k].gap # -1 /\ timers[k].gap < DebounceTicks

\* C3: of the notifications of a burst only the last one's timer ever starts
\* a pass, and a pass never starts earlier than one debounce window after the
\* notification that armed its timer.
C3_DebounceCoalescing ==
    /\ \A t \in Passes : Started(t) => timers[t].age >= DebounceTicks
    /\ \A t, u \in Passes :
         Burst(t, u) => \A k \in t..(u - 1) : ~Started(k)

\* a burst of MaxTimers notifications, and the pass of the last one has run
C3_Witness ==
    /\ Len(timers) = MaxTimers
    /\ Burst(1, MaxTimers)
    /\ \E k \in 1..(MaxTimers - 1) : timers[k].gap > 0
    /\ timers[MaxTimers].pc \in {"completed", "recovered"}

\* ---------------------------------------------------------------- C4
\* C4: a pass whose reload fails returns at once: it invokes no handler and
\* leaves the known count as it was.
C4_FailedReloadNoEffect ==
    [][\A t \in Passes :
         (PassStarts(t) /\ ~load_session(file).ok) =>
            /\ timers'[t].st = "done" /\ timers'[t].pc = "failed"
            /\ count' = count
            /\ lastPos' = lastPos /\ delivered' = delivered]_vars

\* a pass has failed to reload while the known count was positive
C4_Witness ==
    \E t \in Passes : timers[t].pc = "failed" /\ count > 0 /\ delivered = {}

\* ---------------------------------------------------------------- C5
\* C5: a pass that loaded n records and found n greater than the known count
\* c has, when it assigns the count, invoked the handler exactly for the
\* AssistantEntry records at positions c..n-1, in order, and the count is n.
C5_DeliversNewAssistants ==
    [][\A t \in Passes :
         Advances(t) =>
            /\ timers[t].made = AssistantPositions(timers[t].entries, timers[t].c)
            /\ count' = Len(timers[t].entries)]_vars

\* ---------------------------------------------------------------- C6
\* C6: a pass that loaded no more records than the known count returns at
\* line 155: no handler invocation, the known count unchanged, no error.
C6_NoGrowthNoEffect ==
    [][\A t \in Passes :
         (timers[t].pc = "check" /\ timers'[t].pc # "check"
            /\ Len(timers[t].entries) <= count) =>
            /\ timers'[t].st = "done" /\ timers'[t].pc = "noop"
            /\ count' = count
            /\ lastPos' = lastPos /\ delivered' = delivered]_vars

\* a pass has returned at line 155 and the file holds fewer records than the
\* known count
C6_Witness ==
    /\ \E t \in Passes : timers[t].pc = "noop"
    /\ load_session(file).ok
    /\ Len(load_session(file).entries) < count

\* ---------------------------------------------------------------- C7
\* C7: once stop() has returned on a watched file, no pass starts.
C7_NoPassAfterStop ==
    [][(stopReturned /\ observer = "stopped") =>
         \A t \in Passes : ~PassStarts(t)]_vars

\* ---------------------------------------------------------------- C8
\* C8: a pass that was in flight when stop() was called neither invokes the
\* handler nor advances the known count afterwards.
C8_DiscardedAfterStop ==
    [][\A t \in inFlightAtStop : ~Invokes(t) /\ ~Advances(t)]_vars

\* ---------------------------------------------------------------- C9
\* C9: a handler call that raises ends with the report only: the pass goes on
\* with the next AssistantEntry, the watcher's state is untouched, and the
\* pass ends having invoked the handler for every AssistantEntry of its slice
\* and assigning the new total to the known count.
C9_HandlerFailureContained ==
    [][\A t \in Passes :
         /\ (timers[t].pc = "handler" /\ timers'[t].pc # "handler") =>
              /\ timers'[t].st = "running" /\ timers'[t].pc = "loop"
              /\ timers'[t].i = NextAssistant(timers[t].entries, timers[t].i + 1)
              /\ UNCHANGED <<count, running, observer, timerRef>>
         /\ (Advances(t) /\ timers[t].raised) =>
              /\ timers[t].made = AssistantPositions(timers[t].entries, timers[t].base)
              /\ count' = Len(timers[t].entries)
              /\ timers'[t].pc = "recovered"]_vars

\* after a handler call of a pass has raised, the pass is invoking the
\* handler for a later record
C9_Witness ==
    \E t \in Passes :
        /\ timers[t].raised
        /\ timers[t].pc = "handler"
        /\ Len(timers[t].made) >= 2

\* ---------------------------------------------------------------- C10
\* C10: the first load sets the known count before the watch is scheduled
\* and before any notification is handled; when it fails, no watch is ever
\* installed and no handler is ever invoked.
C10_StartupContract ==
    /\ []((observer # "none" \/ timers # <<>>) => startPc \in {"joining", "returned"})
    /\ [](startPc = "failed" =>
            observer = "none" /\ timers = <<>> /\ delivered = {} /\ ~running)
    /\ [][(startPc = "init" /\ startPc' # "init") =>
            IF load_session(file).ok
            THEN /\ count' = Len(load_session(file).entries)
                 /\ startPc' = "loaded" /\ observer' = "none"
            ELSE /\ startPc' = "failed" /\ count' = count]_vars

\* the watch is installed, a notification was handled, and the known count
\* is that of the first load
C10_Witness ==
    /\ observer = "watching"
    /\ timers # <<>>
    /\ count > 0
    /\ \A t \in Passes : ~Started(t)

\* ---------------------------------------------------------------- C11
\* a writer whose every write is a partial line that it completes later
PartialWriter ==
    \/ WriteLines(<<"X">>)
    \/ \E l \in {"A", "U"} : CompleteLine(l)

NextPartial == PartialWriter \/ Tick \/ Start \/ Stop \/ OnChange \/ Process

\* the watcher of Spec on a file whose lines are each written in two steps
SpecPartial == Init /\ [][NextPartial]_vars

\* the last line of the file is a partially written one
PartialLast == file.lines # <<>> /\ file.lines[Len(file.lines)] = "X"

\* C11: a pass that starts while the last line of the file is partial takes
\* no action (no handler invocation, the known count unchanged); the passes
\* that run once lines are completed invoke the handler for each
\* AssistantEntry since the known count exactly once and in file order.
C11_PartialLineThenOnce ==
    [][\A t \in Passes :
         /\ (PassStarts(t) /\ PartialLast) =>
              /\ timers'[t].pc = "failed"
              /\ UNCHANGED <<count, lastPos, delivered>>
         /\ Invokes(t) =>
              /\ timers[t].i \notin delivered
              /\ \A p \in delivered : p < timers[t].i
         /\ Advances(t) =>
              timers[t].made = AssistantPositions(timers[t].entries, timers[t].c)]_vars

\* ---------------------------------------------------------------- C12
\* this step ends the watching: start() gives up or returns, or _running is
\* cleared
EndsWatching ==
    \/ startPc' # startPc /\ startPc' \in {"failed", "returned"}
    \/ running /\ ~running'

\* this step belongs to a call of stop()
StopStep == stopPc' # stopPc

\* C12: the watching ends only by a step of stop(), or at start when the
\* file cannot be read at all; a file that exists and holds malformed
\* lines never ends it, neither at start nor in a later pass.
C12_NeverEndsOnContent ==
    [][/\ EndsWatching => (StopStep \/ ~file.exists)
       /\ \A t \in Passes :
            (PassStarts(t) /\ ~load_session(file).ok) =>
                UNCHANGED <<running, observer, startPc>>]_vars

\* ---------------------------------------------------------------- C13
\* stop() is called, whatever start() has done so far and however many
\* calls of stop() have returned; lines 133-135
StopAnyCancel ==
    /\ stopPc = "idle"
    /\ running' = FALSE
    /\ timers' = Cancelled(timers, timerRef)
    /\ stopPc' = "observer"
    /\ inFlightAtStop' = {t \in 1..Len(timers) : timers[t].st = "running"}
    /\ UNCHANGED <<file, writes, count, observer, timerRef, startPc, stopReturned,
                   lastPos, delivered, convVars, writerVars>>

\* lines 136-139: the observer, when there is one, is stopped and joined,
\* and stop() returns
StopAnyObserver ==
    /\ stopPc = "observer"
    /\ observer' = IF observer = "none" THEN "none" ELSE "stopped"
    /\ stopPc' = "idle"
    /\ stopReturned' = TRUE
    /\ UNCHANGED <<file, writes, count, running, timerRef, timers, startPc,
                   lastPos, delivered, inFlightAtStop, convVars, writerVars>>

\* lines 126-127: the join loop of start() finds _running False
StartReturn ==
    /\ startPc = "joining"
    /\ ~running
    /\ startPc' = "returned"
    /\ UNCHANGED <<file, writes, count, running, observer, timerRef, timers,
                   stopPc, stopReturned, lastPos, delivered, inFlightAtStop, convVars, writerVars>>

StopAny == StopAnyCancel \/ StopAnyObserver

\* a step of start() that does not overlap a call of stop()
StartAlone == stopPc = "idle" /\ Start

NextStop ==
    WriteLines(<<"A">>) \/ StopAny \/ StartAlone \/ StartReturn \/ OnChange \/ Tick \/ Process

\* a watcher on a file that grows by assistant records, with stop() called
\* any number of times, before start() or while start() is in its join loop
\* or has returned
SpecStop == Init /\ [][NextStop]_vars

\* a call of stop() has returned on the installed watch, or start() has not
\* been called: the cases in which a call of stop() is a repeated or an
\* early one
StoppedBefore ==
    \/ startPc = "init"
    \/ stopReturned /\ observer = "stopped"

\* C13: a repeated call of stop(), or a call before start(), changes nothing
\* in the watcher (the timer stays cancelled, the watch released) and raises
\* nothing: the state is the one the first call left.
C13_StopIdempotent ==
    [][(StopStep /\ StoppedBefore) =>
          /\ UNCHANGED <<running, observer, timerRef, timers, count, startPc>>
          /\ stopPc' \in {"idle", "observer"}]_vars

\* ------------------------------------------------ navigator queries
\* the watcher is not in use
NoWatcher ==
    /\ file = [exists |-> FALSE, lines |-> <<>>]
    /\ writes = 0
    /\ count = 0
    /\ running = FALSE
    /\ observer = "none"
    /\ timerRef = 0
    /\ timers = <<>>
    /\ startPc = "init"
    /\ stopPc = "idle"
    /\ stopReturned = FALSE
    /\ lastPos = -1
    /\ delivered = {}
    /\ inFlightAtStop = {}

RECURSIVE Mentions(_, _)
\* the identifiers of records k.. of a log, in the order they are written
Mentions(recs, k) ==
    IF k > Len(recs) THEN <<>>
    ELSE SelectSeq(<<recs[k].uuid, recs[k].parentUuid, recs[k].leafUuid>>,
                   LAMBDA u : u # Null) \o Mentions(recs, k + 1)

\* identifiers are opaque strings that the code only tests for equality, so
\* every log is a renaming of one that introduces 1, 2, ... in this order
Canonical(recs) ==
    LET m == Mentions(recs, 1) IN
    \A k \in 1..Len(m) : \A j \in 1..(m[k] - 1) : \E i \in 1..(k - 1) : m[i] = j

\* the record sequences of at most MaxRecords records, up to renaming
Logs == {recs \in UNION {[1..n -> SessionEntry] : n \in 0..MaxRecords} : Canonical(recs)}

\* a Conversation constructed on any such record sequence, not yet queried
InitNav ==
    /\ NoWatcher
    /\ records \in Logs
    /\ tree_cache = <<>>
    /\ answer = NoAnswer
    /\ session = NoSession
    /\ forkFile = NoFile

\* the property Conversation._tree: the cached index, built on first use
tree == IF tree_cache = <<>> THEN build(records) ELSE tree_cache[1]

\* conv.leaves
Leaves ==
    /\ tree_cache' = <<tree>>
    /\ answer' = [NoAnswer EXCEPT !.q = "leaves", !.path = leaves(tree)]
    /\ UNCHANGED <<records, file, writes, writerVars, watcherVars>>

\* conv.walk_path(uid)
WalkPath(uid) ==
    /\ tree_cache' = <<tree>>
    /\ LET w == walk_path(tree, records, uid) IN
        answer' = [NoAnswer EXCEPT !.q = "walk_path", !.arg = uid,
                                   !.path = w.path, !.ended = w.ended]
    /\ UNCHANGED <<records, file, writes, writerVars, watcherVars>>

\* conv.active_leaf
ActiveLeaf ==
    /\ tree_cache' = <<tree>>
    /\ answer' = [NoAnswer EXCEPT !.q = "active_leaf",
                                   !.entry = active_leaf(tree, records)]
    /\ UNCHANGED <<records, file, writes, writerVars, watcherVars>>

NextNav == Leaves \/ (\E uid \in Ids : WalkPath(uid)) \/ ActiveLeaf

\* the navigator queries on a Conversation whose records do not change
SpecNav == InitNav /\ [][NextNav]_vars

\* ------------------------------------------------ vocabulary of the claims
\* the positions of the tree entries of a log
TreePositions(recs) == {k \in 1..Len(recs) : recs[k].kind \in TreeKinds}

\* the identifiers of the tree entries of a log
TreeIds(recs) == {recs[k].uuid : k \in TreePositions(recs)}

\* the identifiers of the entries of a path
PathIds(recs, path) == {recs[path[k]].uuid : k \in 1..Len(path)}

\* ---------------------------------------------------------------- C14
\* C14: on every log and for every start identifier walk_path leaves its
\* loop, no two entries of the returned path have the same identifier, and
\* the path is no longer than the number of distinct tree-entry identifiers.
C14_WalkTerminates ==
    answer.q = "walk_path" =>
        /\ answer.ended
        /\ \A i, j \in 1..Len(answer.path) :
              i # j => records[answer.path[i]].uuid # records[answer.path[j]].uuid
        /\ Len(answer.path) <= Cardinality(TreeIds(records))

\* a walk that has gone round a parent cycle of two or more entries, back to
\* its start
C14_Witness ==
    /\ answer.q = "walk_path"
    /\ Len(answer.path) >= 2
    /\ records[Last(answer.path)].parentUuid = answer.arg


\* the identifier u is that of a tree entry of the log
Known(recs, u) == u \in TreeIds(recs)

\* the position of the last tree entry of the log with identifier u
LastOcc(recs, u) ==
    CHOOSE k \in TreePositions(recs) :
        /\ recs[k].uuid = u
        /\ \A j \in TreePositions(recs) : recs[j].uuid = u => j <= k

\* ---------------------------------------------------------------- C15
\* C15: walk_path(start) never fails; its result is empty exactly when start
\* is not the identifier of a tree entry, else it begins with the entry of
\* start, each next element is the entry of the parent of the one before,
\* and it ends exactly where that parent is null, is not the identifier of
\* a tree entry, or is already on the path.
C15_WalkChain ==
    answer.q = "walk_path" =>
        LET p == answer.path
            n == Len(answer.path)
            parent(k) == records[p[k]].parentUuid
        IN  /\ answer.ended
            /\ (n = 0) <=> ~Known(records, answer.arg)
            /\ n > 0 => p[1] = LastOcc(records, answer.arg)
            /\ \A k \in 1..(n - 1) :
                  /\ parent(k) # Null
                  /\ Known(records, parent(k))
                  /\ parent(k) \notin {records[p[j]].uuid : j \in 1..k}
                  /\ p[k + 1] = LastOcc(records, parent(k))
            /\ n > 0 =>
                  \/ parent(n) = Null
                  \/ ~Known(records, parent(n))
                  \/ parent(n) \in PathIds(records, p)

\* a walk of two or more entries that has stopped at a dangling parent
C15_Witness ==
    /\ answer.q = "walk_path"
    /\ Len(answer.path) >= 2
    /\ records[Last(answer.path)].parentUuid # Null
    /\ ~Known(records, records[Last(answer.path)].parentUuid)


\* the identifiers that some tree entry of the log names as its parent
ReferencedAsParent(recs) ==
    {recs[k].parentUuid : k \in TreePositions(recs)} \ {Null}

\* ---------------------------------------------------------------- C16
\* C16: the identifiers of the entries that leaves returns and the
\* identifiers referenced as a parent are disjoint, and each identifier of
\* a tree entry is in exactly one of the two sets.
C16_LeavesPartition ==
    answer.q = "leaves" =>
        LET L == PathIds(records, answer.path)
            R == ReferencedAsParent(records)
        IN  /\ L \cap R = {}
            /\ \A u \in TreeIds(records) : (u \in L) # (u \in R)
            /\ L \subseteq TreeIds(records)

\* leaves has answered on a log with leaves, with an entry that is a parent,
\* and with a parent reference that is dangling
C16_Witness ==
    /\ answer.q = "leaves"
    /\ answer.path # <<>>
    /\ ReferencedAsParent(records) \cap TreeIds(records) # {}
    /\ ReferencedAsParent(records) \ TreeIds(records) # {}


\* the positions of the SummaryEntry records whose leafUuid is the
\* identifier of a tree entry
ResolvingSummaries(recs) ==
    {k \in 1..Len(recs) :
        /\ recs[k].kind = "summary"
        /\ recs[k].leafUuid # Null
        /\ Known(recs, recs[k].leafUuid)}

\* the greatest element of a non-empty set of positions
Latest(S) == CHOOSE k \in S : \A j \in S : j <= k

\* ---------------------------------------------------------------- C17
\* C17: when some SummaryEntry of the log has a leafUuid that resolves,
\* active_leaf returns the entry of the leafUuid of the last such record,
\* whatever the depths of the entries and whatever SummaryEntry records
\* with an absent or unresolved leafUuid come after it.
C17_SummaryWins ==
    (answer.q = "active_leaf" /\ ResolvingSummaries(records) # {}) =>
        answer.entry =
            LastOcc(records, records[Latest(ResolvingSummaries(records))].leafUuid)

\* active_leaf has returned, by a SummaryEntry, an entry that is the parent
\* of another one, so not the deepest entry
C17_Witness ==
    /\ answer.q = "active_leaf"
    /\ ResolvingSummaries(records) # {}
    /\ answer.entry # 0
    /\ records[answer.entry].uuid \in ReferencedAsParent(records)
    /\ \E k \in TreePositions(records) :
          /\ records[k].parentUuid = records[answer.entry].uuid
          /\ records[k].uuid # records[answer.entry].uuid


\* the position of the first tree entry of the log with identifier u
FirstOcc(recs, u) ==
    CHOOSE k \in TreePositions(recs) :
        /\ recs[k].uuid = u
        /\ \A j \in TreePositions(recs) : recs[j].uuid = u => k <= j

\* the identifiers of the leaves of the log
LeafIds(recs) == TreeIds(recs) \ ReferencedAsParent(recs)

\* the length of walk_path from u
Depth(recs, u) == Len(walk_path(build(recs), recs, u).path)

\* ---------------------------------------------------------------- C18
\* C18: when no SummaryEntry resolves and the log has leaves, active_leaf
\* returns the entry of a leaf whose walk_path is at least as long as that
\* of every leaf, and every other leaf with a walk_path of the same length
\* occurs later in the records.
C18_DeepestLeafFirst ==
    (answer.q = "active_leaf" /\ ResolvingSummaries(records) = {}
        /\ LeafIds(records) # {}) =>
        \E u \in LeafIds(records) :
            /\ answer.entry = LastOcc(records, u)
            /\ \A v \in LeafIds(records) :
                  /\ Depth(records, v) <= Depth(records, u)
                  /\ (v # u /\ Depth(records, v) = Depth(records, u)) =>
                        FirstOcc(records, u) < FirstOcc(records, v)

\* the log [A root, B parent A, C parent A]: active_leaf has returned B
C18_Witness ==
    /\ answer.q = "active_leaf"
    /\ Len(records) = 3
    /\ \A k \in 1..3 : records[k].kind \in TreeKinds /\ records[k].uuid = k
    /\ records[1].parentUuid = Null
    /\ records[2].parentUuid = 1
    /\ records[3].parentUuid = 1
    /\ answer.entry = 2


\* the positions of the entries that are the last occurrence of their
\* identifier
Authoritative(recs) == {LastOcc(recs, u) : u \in TreeIds(recs)}

\* the identifiers that no last occurrence names as its parent
AuthoritativeLeafIds(recs) ==
    TreeIds(recs) \ {recs[k].parentUuid : k \in Authoritative(recs)}

\* ---------------------------------------------------------------- C19
\* C19: every navigator query answers as if each identifier had only its
\* last occurrence as record: the entries returned are last occurrences,
\* walk_path steps to the parentUuid of the last occurrence, and the leaves
\* are the identifiers that no last occurrence names as parent.
C19_LastOccurrenceRules ==
    /\ answer.q = "leaves" =>
          /\ \A i \in 1..Len(answer.path) : answer.path[i] \in Authoritative(records)
          /\ PathIds(records, answer.path) = AuthoritativeLeafIds(records)
    /\ answer.q = "walk_path" =>
          \A i \in 1..Len(answer.path) :
              /\ answer.path[i] \in Authoritative(records)
              /\ i < Len(answer.path) =>
                    records[answer.path[i + 1]].uuid = records[answer.path[i]].parentUuid
    /\ (answer.q = "active_leaf" /\ answer.entry # 0) =>
          /\ answer.entry \in Authoritative(records)
          /\ ResolvingSummaries(records) = {} =>
                records[answer.entry].uuid \in AuthoritativeLeafIds(records)


\* ------------------------------------------- a Conversation that changes
\* a caller appends a record to conv.records, a plain list field of the
\* model; nothing in Conversation assigns _tree_cache but _tree itself
AppendRecord(r) ==
    /\ Len(records) < MaxRecords
    /\ Canonical(Append(records, r))
    /\ records' = Append(records, r)
    /\ UNCHANGED <<tree_cache, answer, file, writes, writerVars, watcherVars>>

\* Conversation(): the default, empty record list
InitConv ==
    /\ NoWatcher
    /\ records = <<>>
    /\ tree_cache = <<>>
    /\ answer = NoAnswer
    /\ session = NoSession
    /\ forkFile = NoFile

NextConv == (\E r \in SessionEntry : AppendRecord(r)) \/ NextNav

\* the navigator queries on a Conversation whose record list grows
SpecConv == InitConv /\ [][NextConv]_vars

\* this step is a navigator query
QueryStep == answer' # answer \/ tree_cache' # tree_cache

\* ---------------------------------------------------------------- C20
\* C20: the index a navigator query leaves in the cache, which is the one
\* it answered from, is the index of the current records; a query that
\* finds such an index in the cache keeps it.
C20_IndexIsCurrent ==
    [][QueryStep =>
          /\ tree_cache' = <<build(records)>>
          /\ tree_cache = <<build(records)>> => tree_cache' = tree_cache]_vars


\* ---------------------------------------------------------------- C21
\* C21: on a log without tree entries leaves returns the empty list and
\* active_leaf returns None, also when the log holds SummaryEntry records.
C21_NoTreeEntries ==
    TreePositions(records) = {} =>
        /\ answer.q = "leaves" => answer.path = <<>>
        /\ answer.q = "active_leaf" => answer.entry = 0

\* active_leaf has answered on a log of SummaryEntry records with a leafUuid
\* and other records, none of them a tree entry
C21_Witness ==
    /\ answer.q = "active_leaf"
    /\ TreePositions(records) = {}
    /\ \E k \in 1..Len(records) :
          records[k].kind = "summary" /\ records[k].leafUuid # Null
    /\ \E k \in 1..Len(records) : records[k].kind = "file-history-snapshot"


\* the positions of the tree entries with a null parentUuid
Roots(recs) == {k \in TreePositions(recs) : recs[k].parentUuid = Null}

\* no two tree entries of the log have the same identifier
DistinctIds(recs) ==
    \A i, j \in TreePositions(recs) : recs[i].uuid = recs[j].uuid => i = j

QueueOperation(sid, ts) ==
    [kind |-> "queue-operation", sessionId |-> sid, timestamp |-> ts]

UserEntry(u, p, sid, ts, c) ==
    [kind |-> "user", uuid |-> u, parentUuid |-> p, sessionId |-> sid,
     timestamp |-> ts, message |-> [role |-> "user", content |-> c]]

AssistantEntry(u, p, sid, ts, c) ==
    [kind |-> "assistant", uuid |-> u, parentUuid |-> p, sessionId |-> sid,
     timestamp |-> ts,
     message |-> [role |-> "assistant",
                  content |-> <<[type |-> "text", text |-> c]>>]]

SummaryEntry(l, ts) == [kind |-> "summary", leafUuid |-> l, timestamp |-> ts]

\* A line of text of a log file: blank, text that is not valid JSON (a
\* truncated record, say), or the JSON object obj.  The key "kind" of an
\* object stands for the JSON key "type".
BlankLine == [form |-> "blank"]

GarbageLine == [form |-> "text"]

JsonLine(obj) == [form |-> "json", obj |-> obj]

\* to_jsonl_line: model_dump_json(exclude_none = True) leaves out the fields
\* whose value is None
to_jsonl_line(e) ==
    LET none == {f \in DOMAIN e \cap {"parentUuid", "leafUuid"} : e[f] = Null}
    IN  JsonLine([f \in DOMAIN e \ none |-> e[f]])

\* the kinds of record the model reads and writes, of the nine of the union
\* SessionEntry
EntryKinds == {"queue-operation", "user", "assistant", "summary"}

\* the fields without a default value
Required(kind) ==
    CASE kind = "queue-operation" -> {"sessionId"}
      [] kind = "user" -> {"sessionId", "message"}
      [] kind = "assistant" -> {"parentUuid", "sessionId", "message"}
      [] OTHER -> {}

\* the fields with the default value None
Defaults(kind) ==
    CASE kind = "user" -> [parentUuid |-> Null]
      [] kind = "summary" -> [leafUuid |-> Null]
      [] OTHER -> <<>>

\* adapter.validate_python(obj) returns an entry: the type is one of the
\* union and every required field is there, with a value of its type
Validates(obj) ==
    /\ obj.kind \in EntryKinds
    /\ Required(obj.kind) \subseteq DOMAIN obj
    /\ obj.kind = "assistant" => obj.parentUuid # Null

\* the entry adapter.validate_python(obj) returns
Entry(obj) == obj @@ Defaults(obj.kind)

RECURSIVE ReadLoop_StopsAtGarbage(_, _, _)
\* a reader that ends the read, keeping what it has, at a line that is not
\* valid JSON
ReadLoop_StopsAtGarbage(lines, k, recs) ==
    IF k > Len(lines) THEN [error |-> "none", records |-> recs]
    ELSE IF lines[k].form = "blank" THEN ReadLoop_StopsAtGarbage(lines, k + 1, recs)
    ELSE IF lines[k].form = "text" THEN [error |-> "none", records |-> recs]
    ELSE IF ~Validates(lines[k].obj)
         THEN [error |-> "ValidationError", records |-> <<>>]
    ELSE ReadLoop_StopsAtGarbage(lines, k + 1, Append(recs, Entry(lines[k].obj)))

RECURSIVE ReadLoop(_, _, _)
\* the loop "for line in f" of Conversation.from_jsonl from line k on: a
\* blank line and a JSONDecodeError are passed over, a ValidationError of
\* validate_python is not caught
ReadLoop(lines, k, recs) ==
    IF k > Len(lines) THEN [error |-> "none", records |-> recs]
    ELSE IF lines[k].form = "blank" THEN ReadLoop(lines, k + 1, recs)
    ELSE IF lines[k].form = "text" THEN ReadLoop(lines, k + 1, recs)
    ELSE IF ~Validates(lines[k].obj)
         THEN [error |-> "ValidationError", records |-> <<>>]
    ELSE ReadLoop(lines, k + 1, Append(recs, Entry(lines[k].obj)))

\* Conversation.from_jsonl: the exception it raises ("none" when it
\* returns) and the records of the Conversation it returns
from_jsonl(f) ==
    IF ~f.exists THEN [error |-> "FileNotFoundError", records |-> <<>>]
    ELSE ReadLoop(f.lines, 1, <<>>)

\* the line as load_session of src/watcher.py takes it
WatcherLine(line) ==
    IF line.form = "blank" THEN "B"
    ELSE IF line.form = "text" THEN "X"
    ELSE IF ~Validates(line.obj) THEN "X"
    ELSE IF line.obj.kind = "assistant" THEN "A"
    ELSE "U"

\* the file as load_session takes it
WatcherFile(f) ==
    [exists |-> f.exists,
     lines |-> [k \in 1..Len(f.lines) |-> WatcherLine(f.lines[k])]]

\* ------------------------------------------------------- the Log Reader
MaxLines == 3       \* lines in a file given to the Log Reader

\* the entries whose lines the files are drawn from
GoodEntries ==
    {QueueOperation(1, 0), UserEntry(1, Null, 1, 1, 1), UserEntry(2, 1, 1, 2, 2),
     AssistantEntry(2, 1, 1, 2, 1), SummaryEntry(2, 3)}

\* JSON objects that fail validation: an unrecognized type, and a user
\* record without its message
BadObjects ==
    {[kind |-> "bogus", uuid |-> 1],
     [kind |-> "user", uuid |-> 1, sessionId |-> 1, timestamp |-> 1]}

ReadLines ==
    {BlankLine, GarbageLine} \cup {JsonLine(o) : o \in BadObjects}
        \cup {to_jsonl_line(e) : e \in GoodEntries}

ReadFiles ==
    {[exists |-> FALSE, lines |-> <<>>]} \cup
    {[exists |-> TRUE, lines |-> l] :
        l \in UNION {[1..n -> ReadLines] : n \in 0..MaxLines}}

\* a watcher that has been constructed and not started
NewWatcher ==
    /\ writes = 0
    /\ count = 0
    /\ running = FALSE
    /\ observer = "none"
    /\ timerRef = 0
    /\ timers = <<>>
    /\ startPc = "init"
    /\ stopPc = "idle"
    /\ stopReturned = FALSE
    /\ lastPos = -1
    /\ delivered = {}
    /\ inFlightAtStop = {}

\* a file on disk, no Conversation loaded
InitRead ==
    /\ NewWatcher
    /\ file \in ReadFiles
    /\ records = <<>>
    /\ tree_cache = <<>>
    /\ answer = NoAnswer
    /\ session = NoSession
    /\ forkFile = NoFile

\* conv = Conversation.from_jsonl(path)
FromJsonl ==
    /\ LET r == from_jsonl(file) IN
        /\ answer' = [NoAnswer EXCEPT !.q = "from_jsonl", !.error = r.error]
        /\ IF r.error = "none"
           THEN records' = r.records /\ tree_cache' = <<>>
           ELSE UNCHANGED <<records, tree_cache>>
    /\ UNCHANGED <<file, writes, writerVars, watcherVars>>

\* entries = load_session(path), as start() calls it: entry is the number
\* of entries, error tells that None was returned
LoadSession ==
    /\ LET r == load_session(WatcherFile(file)) IN
        answer' = [NoAnswer EXCEPT !.q = "load_session",
                                   !.entry = Len(r.entries),
                                   !.error = IF r.ok THEN "none" ELSE "None"]
    /\ UNCHANGED <<records, tree_cache, file, writes, writerVars, watcherVars>>

NextRead == FromJsonl \/ LoadSession

\* the Log Reader on every bounded file
SpecRead == InitRead /\ [][NextRead]_vars

\* the line is a JSON object that fails validation
SchemaFailing(line) == line.form = "json" /\ ~Validates(line.obj)

\* the line decodes to a record
Decodable(line) == line.form = "json" /\ Validates(line.obj)

\* the records of the decodable lines, in line order
DecodableRecords(lines) ==
    LET good == SelectSeq(lines, Decodable)
    IN  [k \in 1..Len(good) |-> Entry(good[k].obj)]

\* ---------------------------------------------------------------- C23
\* C23: on a file whose lines are blank, not valid JSON or decodable,
\* from_jsonl does not fail and returns exactly the records of the
\* decodable lines, in line order.
C23_SkipsBlankAndGarbage ==
    (answer.q = "from_jsonl" /\ file.exists
        /\ \A k \in 1..Len(file.lines) : ~SchemaFailing(file.lines[k])) =>
        /\ answer.error = "none"
        /\ records = DecodableRecords(file.lines)

\* a file with a line that is not JSON between two decodable lines has been
\* read: both records are returned
C23_Witness ==
    /\ answer.q = "from_jsonl"
    /\ Len(file.lines) = 3
    /\ Decodable(file.lines[1])
    /\ file.lines[2] = GarbageLine
    /\ Decodable(file.lines[3])
    /\ file.lines[1] # file.lines[3]
    /\ Len(records) = 2


\* ---------------------------------------------------------------- C24
\* C24: a line that is valid JSON and fails schema decoding is skipped: on a
\* file with such a line from_jsonl does not fail and returns the records
\* of the other, decodable lines, in line order.
C24_SkipsSchemaFailing ==
    (answer.q = "from_jsonl" /\ file.exists
        /\ \E k \in 1..Len(file.lines) : SchemaFailing(file.lines[k])) =>
        /\ answer.error = "none"
        /\ records = DecodableRecords(file.lines)

\* ---------------------------------------------------------------- C25
\* C25: a first load of a file that cannot be opened, or from which no
\* record at all is recovered, fails: from_jsonl raises, and load_session
\* gives start() no entry list to start from at count 0.
C25_EmptyLoadFails ==
    (answer.q \in {"from_jsonl", "load_session"}
        /\ (~file.exists \/ DecodableRecords(file.lines) = <<>>)) =>
        answer.error # "none"


\* ------------------------------------------------------- the Log Writer
MaxTurns == 3       \* turns in the messages given to Session.from_messages

\* a message {"role": ..., "content": "..."} with a string as content
Turns == [role : {"user", "assistant"}, content : {1, 2}]

Messages == UNION {[1..n -> Turns] : n \in 0..MaxTurns}

\* _make_timestamp: datetime.now() + offset_seconds, written with
\* timespec = "milliseconds", which drops the digits below the millisecond.
\* now is in half milliseconds, the result in milliseconds.
make_timestamp(now, offset_seconds) == (now + offset_seconds * 2000) \div 2

RECURSIVE FromMessagesLoop_NoRelink(_, _, _, _, _, _, _)
\* the loop without the assignments parent_uuid = ....uuid
FromMessagesLoop_NoRelink(messages, i, sid, nows, base, entries, parent_uuid) ==
    IF i >= Len(messages) THEN entries
    ELSE LET msg == messages[i + 1]
             ts == make_timestamp(nows[i + 2], (i + 1) * 30)
             new_uuid == base + Len(entries)
         IN  IF msg.role = "user"
             THEN FromMessagesLoop_NoRelink(messages, i + 1, sid, nows, base,
                      Append(entries,
                             UserEntry(new_uuid, parent_uuid, sid, ts, msg.content)),
                      parent_uuid)
             ELSE FromMessagesLoop_NoRelink(messages, i + 1, sid, nows, base,
                      Append(entries,
                             AssistantEntry(new_uuid,
                                 IF Falsy(parent_uuid) THEN Empty ELSE parent_uuid,
                                 sid, ts, msg.content)),
                      parent_uuid)

RECURSIVE FromMessagesLoop(_, _, _, _, _, _, _)
\* the loop "for i, msg in enumerate(messages)" of Session.from_messages
\* from the 0-based index i on.  nows[k] is the clock at the k-th call of
\* _make_timestamp; the identifiers uuid4 issues are base + 1, base + 2, ...
FromMessagesLoop(messages, i, sid, nows, base, entries, parent_uuid) ==
    IF i >= Len(messages) THEN entries
    ELSE LET msg == messages[i + 1]
             ts == make_timestamp(nows[i + 2], (i + 1) * 30)
             new_uuid == base + Len(entries)
         IN  IF msg.role = "user"
             THEN FromMessagesLoop(messages, i + 1, sid, nows, base,
                      Append(entries,
                             UserEntry(new_uuid, parent_uuid, sid, ts, msg.content)),
                      new_uuid)
             ELSE IF msg.role = "assistant"
             THEN FromMessagesLoop(messages, i + 1, sid, nows, base,
                      Append(entries,
                             AssistantEntry(new_uuid,
                                 IF Falsy(parent_uuid) THEN Empty ELSE parent_uuid,
                                 sid, ts, msg.content)),
                      new_uuid)
             ELSE FromMessagesLoop(messages, i + 1, sid, nows, base, entries,
                                   parent_uuid)

\* Session.from_messages(messages, session_id = sid)
from_messages(messages, sid, nows, base) ==
    [session_id |-> sid,
     entries |-> FromMessagesLoop(messages, 0, sid, nows, base,
                     <<QueueOperation(sid, make_timestamp(nows[1], 0))>>, Null),
     messages |-> messages]

\* Session.to_jsonl: the lines of "\n".join(lines) + "\n"
to_jsonl(entries) ==
    IF entries = <<>> THEN <<BlankLine>>
    ELSE [k \in 1..Len(entries) |-> to_jsonl_line(entries[k])]

\* the session identifier of the log file at the path of file
ThisSession == 1

\* the file at the path Session.save writes to: not there, or there with the
\* records of an earlier session of that identifier, a user turn with two
\* alternative answers
PriorFiles ==
    {NoFile,
     [exists |-> TRUE,
      lines |-> to_jsonl(<<QueueOperation(ThisSession, 0),
                           UserEntry(1, Null, ThisSession, 30000, 1),
                           AssistantEntry(2, 1, ThisSession, 60000, 1),
                           AssistantEntry(3, 1, ThisSession, 90000, 2)>>)]}

\* the identifiers of the records of the lines
UuidsOf(lines) ==
    {lines[k].obj.uuid :
        k \in {j \in 1..Len(lines) :
                  lines[j].form = "json" /\ "uuid" \in DOMAIN lines[j].obj}}

\* the greatest of a set of identifiers, 0 for the empty set
MaxOf(S) == IF S = {} THEN 0 ELSE CHOOSE m \in S : \A u \in S : u <= m

RECURSIVE ClockReadings(_, _)
\* the clock, in half milliseconds, at each call of _make_timestamp: it
\* starts at now and advances by ticks[k] before the k-th call
ClockReadings(ticks, now) ==
    IF ticks = <<>> THEN <<>>
    ELSE <<now + Head(ticks)>> \o ClockReadings(Tail(ticks), now + Head(ticks))

InitWrite ==
    /\ NewWatcher
    /\ file \in PriorFiles
    /\ records = <<>>
    /\ tree_cache = <<>>
    /\ answer = NoAnswer
    /\ session = NoSession
    /\ forkFile = NoFile

\* session = Session.from_messages(messages, session_id = ThisSession), with
\* the clock advancing by ticks[k] half milliseconds before the k-th call of
\* _make_timestamp
FromMessages(messages, ticks) ==
    /\ session = NoSession
    /\ records = <<>>
    /\ session' = from_messages(messages, ThisSession, ClockReadings(ticks, 0),
                                MaxOf(UuidsOf(file.lines)))
    /\ answer' = [NoAnswer EXCEPT !.q = "from_messages"]
    /\ UNCHANGED <<records, tree_cache, file, writes, forkFile, watcherVars>>

\* session.save(): open(file_path, "w") empties a file that is there
Save ==
    /\ session # NoSession
    /\ records = <<>>
    /\ file' = [exists |-> TRUE, lines |-> to_jsonl(session.entries)]
    /\ answer' = [NoAnswer EXCEPT !.q = "save"]
    /\ UNCHANGED <<records, tree_cache, writes, writerVars, watcherVars>>


\* ------------------------------------------------------------- forking
\* fork_session(path, leaf_uuid) of reduck.models, after the Forking
\* paragraph of the Log Writer: the ancestry chain root..leaf_uuid of the
\* log, each record re-issued with a new identifier under the new session
\* identifier and linked to the one before it.
Reverse(s) == [k \in 1..Len(s) |-> s[Len(s) + 1 - k]]

\* fork_session that copies every tree entry of the log
fork_entries_WholeLog(recs, leaf_uuid, new_sid, base) ==
    LET chain == SelectSeq([k \in 1..Len(recs) |-> k],
                           LAMBDA k : recs[k].kind \in TreeKinds)
    IN  [k \in 1..Len(chain) |->
            [recs[chain[k]] EXCEPT
                !.uuid = base + k,
                !.sessionId = new_sid,
                !.parentUuid = IF k = 1 THEN @ ELSE base + k - 1]]

\* the records of the new log
fork_entries(recs, leaf_uuid, new_sid, base) ==
    LET chain == Reverse(walk_path(build(recs), recs, leaf_uuid).path)
    IN  [k \in 1..Len(chain) |->
            [recs[chain[k]] EXCEPT
                !.uuid = base + k,
                !.sessionId = new_sid,
                !.parentUuid = IF k = 1 THEN @ ELSE base + k - 1]]

\* new_session_id = fork_session(path, leaf_uuid): the new log file is
\* written, the file at path is only read
Fork(leaf_uuid) ==
    /\ from_jsonl(file).error = "none"
    /\ forkFile = NoFile
    /\ LET recs == from_jsonl(file).records
           new_sid == ThisSession + 1
       IN  /\ forkFile' = [exists |-> TRUE,
                           lines |-> to_jsonl(fork_entries(recs, leaf_uuid, new_sid,
                                                  MaxOf(UuidsOf(file.lines))))]
           /\ answer' = [NoAnswer EXCEPT !.q = "fork_session", !.arg = leaf_uuid,
                                         !.entry = new_sid]
    /\ UNCHANGED <<records, tree_cache, file, writes, session, watcherVars>>

\* session.save() has written the file
Saved == session # NoSession /\ file = [exists |-> TRUE, lines |-> to_jsonl(session.entries)]

NextWrite ==
    \/ /\ session = NoSession
       /\ \E messages \in Messages :
             \E tick \in {0, 1, 3} :
                FromMessages(messages, [k \in 1..(Len(messages) + 1) |-> tick])
    \/ Save
    \/ (file.exists /\ records = <<>> /\ FromJsonl)
    \/ (records # <<>> /\ Leaves)
    \/ (records # <<>> /\ ActiveLeaf)
    \/ \E uid \in KeySpace(records) : records # <<>> /\ WalkPath(uid)
    \/ \E uid \in KeySpace(records) : records # <<>> /\ Fork(uid)

\* a Session built from messages and saved, the file loaded and navigated
SpecWrite == InitWrite /\ [][NextWrite]_vars

\* the positions of the tree entries of the Session
TurnEntries(entries) == {k \in 1..Len(entries) : entries[k].kind \in TreeKinds}

\* ---------------------------------------------------------------- C26
\* C26: the records of Session.from_messages begin with a QueueOperation;
\* each record after it is the record of one turn, the first one with a
\* null parentUuid, every later one with the identifier of the record
\* before it as parentUuid; timestamps increase strictly along the records,
\* by at least 30 seconds from one tree entry to the next.
C26_WellFormedSession ==
    session # NoSession =>
        LET e == session.entries IN
        /\ e[1].kind = "queue-operation"
        /\ Len(e) = Len(session.messages) + 1
        /\ \A k \in 2..Len(e) :
              /\ e[k].kind = session.messages[k - 1].role
              /\ e[k].parentUuid = IF k = 2 THEN Null ELSE e[k - 1].uuid
              /\ e[k].timestamp > e[k - 1].timestamp
              /\ k > 2 => e[k].timestamp >= e[k - 1].timestamp + 30000


\* the text of the message of a tree entry
TextOf(e) ==
    IF e.kind = "user" THEN e.message.content ELSE e.message.content[1].text

\* ---------------------------------------------------------------- C27
\* C27: when a Session built from N >= 1 user and assistant turns has been
\* saved and the file loaded by from_jsonl, the records hold exactly N tree
\* entries, leaves returns exactly one entry, and walk_path from the leaf
\* returns N entries that are the turns in reverse order, the last one
\* naming no parent.
C27_RoundTrip ==
    LET N == Len(session.messages) IN
    (Saved /\ records # <<>> /\ N >= 1) =>
        /\ Cardinality(TreePositions(records)) = N
        /\ answer.q = "leaves" => Len(answer.path) = 1
        /\ (answer.q = "walk_path" /\ answer.arg \in LeafIds(records)) =>
              /\ Len(answer.path) = N
              /\ \A k \in 1..Len(answer.path) :
                    /\ records[answer.path[k]].kind = session.messages[N + 1 - k].role
                    /\ TextOf(records[answer.path[k]])
                          = session.messages[N + 1 - k].content
              /\ Falsy(records[Last(answer.path)].parentUuid)

\* three turns, an assistant turn first and the three not all of one
\* content, saved, loaded and walked from the leaf
C27_Witness ==
    /\ Saved
    /\ Len(session.messages) = 3
    /\ session.messages[1].role = "assistant"
    /\ session.messages[2].role = "user"
    /\ session.messages[1].content # session.messages[3].content
    /\ answer.q = "walk_path"
    /\ answer.arg \in LeafIds(records)
    /\ Len(answer.path) = 3


\* the records of the log file f, as from_jsonl returns them
RecordsOf(f) == from_jsonl(f).records

\* the entries of walk_path(uid) on the records recs
PathOf(recs, uid) ==
    LET p == walk_path(build(recs), recs, uid).path
    IN  [k \in 1..Len(p) |-> recs[p[k]]]

\* ---------------------------------------------------------------- C28
\* C28: after forking the log at node X the new log is under a session
\* identifier different from the original's, its tree entries are as many
\* as the entries of the original's walk_path from X, the walk_path from
\* its tip has the kinds and messages of the original's walk_path from X in
\* the same order, and the original file still holds the records it held.
C28_ForkCopiesAncestry ==
    (answer.q = "fork_session" /\ Known(RecordsOf(file), answer.arg)) =>
        LET orig == RecordsOf(file)
            new == RecordsOf(forkFile)
            old_path == PathOf(orig, answer.arg)
            tip == active_leaf(build(new), new)
            new_path == PathOf(new, new[tip].uuid)
        IN  /\ answer.entry # ThisSession
            /\ \A k \in 1..Len(new) : new[k].sessionId = answer.entry
            /\ Cardinality(TreePositions(new)) = Len(old_path)
            /\ tip # 0
            /\ Len(new_path) = Len(old_path)
            /\ \A k \in 1..Len(new_path) :
                  /\ new_path[k].kind = old_path[k].kind
                  /\ new_path[k].message = old_path[k].message
            /\ orig = records

\* a fork at the second of two alternative answers: the first answer, which
\* comes before it in the file, and nothing else is left out
C28_Witness ==
    /\ answer.q = "fork_session"
    /\ Len(PathOf(RecordsOf(file), answer.arg)) = 2
    /\ Cardinality(TreePositions(RecordsOf(file))) = 3
    /\ \E k \in TreePositions(RecordsOf(file)) :
          /\ k < LastOcc(RecordsOf(file), answer.arg)
          /\ RecordsOf(file)[k].parentUuid
                = RecordsOf(file)[LastOcc(RecordsOf(file), answer.arg)].parentUuid
          /\ ~Falsy(RecordsOf(file)[k].parentUuid)


\* the sequence s begins with the sequence p
IsPrefix(p, s) == Len(p) <= Len(s) /\ \A k \in 1..Len(p) : s[k] = p[k]

\* ---------------------------------------------------------------- C29
\* C29: Session.save only appends: the records the file held before the
\* call are, in their order, the first records it holds after it.
C29_SaveOnlyAppends ==
    [][(answer'.q = "save" /\ file.exists) =>
          IsPrefix(RecordsOf(file), RecordsOf(file'))]_vars


\* ---------------------------------------------------------------- C30
\* A watcher that is started and never stopped, on a file that grows by
\* assistant records.  Time passes while a timer counts its interval, and
\* the thread of a timer whose interval has elapsed calls _process unless
\* the timer is cancelled first.
NextLive == WriteLines(<<"A">>) \/ Start \/ OnChange \/ Tick \/ Process

SpecLive ==
    /\ Init
    /\ [][NextLive]_vars
    /\ WF_vars(Tick)
    /\ \A t \in 1..MaxTimers : WF_vars(t <= Len(timers) /\ Fire(t))

\* C30: every change notification is eventually followed by a pass that
\* begins after it, that of its own timer or of the timer of a later
\* notification, when stop() is not called and the notifications end.
C30_NotificationLeadsToPass ==
    \A t \in 1..MaxTimers :
        [](Len(timers) >= t => <>(\E u \in t..Len(timers) : Started(u)))

\* a notification has arrived during the pass of the timer before it, and
\* the pass of its own timer has begun while that one is still in flight
C30_Witness ==
    /\ Len(timers) >= 2
    /\ timers[1].st = "running"
    /\ timers[2].st = "running"


\* ---------------------------------------------------------------- C31
\* the steps of the _process call on the thread of timer t
PassSteps(t) ==
    \/ Fire(t)
    \/ Check(t)
    \/ Slice(t)
    \/ HandlerCall(t)
    \/ \E ok \in BOOLEAN : HandlerReturn(t, ok)
    \/ SetCount(t)

\* another process appends, while the watcher watches, an assistant record,
\* or a line that is not decodable followed by an assistant record
AppendWhileWatching ==
    /\ startPc = "joining"
    /\ \E ls \in {<<"A">>, <<"X", "A">>} :
          Len(file.lines) + Len(ls) <= MaxFile /\ WriteLines(ls)

NextDeliver == AppendWhileWatching \/ Start \/ OnChange \/ Tick \/ Process

\* A watcher that is started and never stopped, on a file that grows while
\* it is watched.  Time passes, and every Timer thread goes on: an expired
\* timer calls _process, and a _process call, the handler included, takes
\* its next step.
SpecDeliver ==
    /\ Init
    /\ [][NextDeliver]_vars
    /\ WF_vars(Tick)
    /\ \A t \in 1..MaxTimers : WF_vars(t <= Len(timers) /\ PassSteps(t))

\* the record at position p of the file is an assistant record that the
\* running watcher has not counted yet
Uncounted(p) ==
    /\ startPc = "joining"
    /\ p >= count
    /\ p < Len(Decoded(file.lines))
    /\ Decoded(file.lines)[p + 1] = "A"

\* C31: an assistant record that is in the file of the running watcher and
\* not yet counted is eventually passed to the handler, when a change
\* notification comes after it, the notifications end and stop() is not
\* called.
C31_AppendedIsDelivered ==
    \A p \in 0..(MaxFile - 1) : \A n \in 0..MaxTimers :
        []((Uncounted(p) /\ Len(timers) = n) =>
              ([](Len(timers) = n) \/ <>(p \in delivered)))


\* ---------------------------------------------------------------- C32
\* another process appends one complete record; the file only grows
GrowLine ==
    /\ Len(file.lines) < MaxFile
    /\ \E l \in {"A", "U"} :
          file' = [exists |-> TRUE, lines |-> Append(file.lines, l)]
    /\ UNCHANGED <<writes, watcherVars, convVars, writerVars>>

NextGrow == GrowLine \/ Start \/ OnChange \/ Tick \/ Process

\* the watcher, not stopped, on a file that only grows by complete records
SpecGrow == Init /\ [][NextGrow]_vars

\* C32: no step lowers the known count, and the count is at most the number
\* of records of the most recent successful load: of the load a pass has
\* just made, and, when a pass assigns it, of the load of every later pass
\* that is in flight.
C32_CountMonotoneAndBounded ==
    [][/\ count' >= count
       /\ \A t \in Passes :
            /\ (PassStarts(t) /\ InProcess(t)') =>
                  count' <= Len(timers'[t].entries)
            /\ Advances(t) =>
                  \A u \in (t + 1)..Len(timers) :
                      InProcess(u) => count' <= Len(timers[u].entries)]_vars


\* ---------------------------------------------------------------- C33
\* C33: on a log with at least one tree entry active_leaf returns an entry,
\* never None, whatever the parent links are (cycles and self-references
\* included).
C33_ActiveLeafExists ==
    (answer.q = "active_leaf" /\ TreePositions(records) # {}) =>
        answer.entry # 0


\* ------------------------------------------------- the session API
\* Model of get_leaves and get_messages of src/api/server.py on a loaded
\* Conversation.  An entry is named by its position in records; the preview
\* and the content of a message are those of the entry named.
TreeKindSeq == <<"user", "assistant", "progress", "system">>

OtherKindSeq == <<"queue-operation", "file-history-snapshot", "custom-title", "pr-link">>

\* the ways the types of a log are assigned
Typings == 0..3

\* record r under typing s: a tree entry has one of the four tree types,
\* by its identifier, a SummaryEntry has its uuid field, another record one
\* of the other types
Retype(r, s) ==
    IF r.kind \in TreeKinds
    THEN [r EXCEPT !.kind = TreeKindSeq[((r.uuid + s) % 4) + 1]]
    ELSE IF r.kind = "summary"
    THEN [r EXCEPT !.uuid = (s % MaxIds) + 1]
    ELSE [r EXCEPT !.kind = OtherKindSeq[s + 1]]

\* the logs of Logs, with records of every type
ApiLogs == {[k \in 1..Len(recs) |-> Retype(recs[k], s)] : recs \in Logs, s \in Typings}

RECURSIVE SortByDepth(_, _)
\* result.sort(key=lambda x: x.depth, reverse=True) of the elements k.. of
\* s: a stable sort, elements of equal depth keep their order
SortByDepth(s, k) ==
    IF k > Len(s) THEN <<>>
    ELSE LET rest == SortByDepth(s, k + 1) IN
         SelectSeq(rest, LAMBDA x : x.depth > s[k].depth)
            \o <<s[k]>> \o SelectSeq(rest, LAMBDA x : x.depth <= s[k].depth)

\* get_leaves: a LeafInfo for every leaf, deepest first
get_leaves(t, recs) ==
    LET active      == active_leaf(t, recs)
        all_leaves  == leaves(t)
        result == [i \in 1..Len(all_leaves) |->
                     [entry |-> all_leaves[i],
                      depth |-> Len(walk_path(t, recs, recs[all_leaves[i]].uuid).path),
                      is_active |-> active # 0
                                      /\ recs[all_leaves[i]].uuid = recs[active].uuid]]
    IN SortByDepth(result, 1)

\* path.reverse()
reverse(s) == [i \in 1..Len(s) |-> s[Len(s) + 1 - i]]

RECURSIVE MessagesLoop(_, _, _)
\* the loop of get_messages over the entries k.. of path
MessagesLoop(recs, path, k) ==
    IF k > Len(path) THEN <<>>
    ELSE LET entry == recs[path[k]] IN
         (IF entry.kind = "user" THEN <<[role |-> "user", entry |-> path[k]]>>
          ELSE IF entry.kind = "assistant"
               THEN <<[role |-> "assistant", entry |-> path[k]]>>
               ELSE <<>>)
         \o MessagesLoop(recs, path, k + 1)

\* the entries of a path that are UserEntry or AssistantEntry records
UserAndAssistant(recs, path) ==
    SelectSeq(path, LAMBDA k : recs[k].kind \in {"user", "assistant"})

\* get_messages that returns the messages in the order of walk_path
get_messages_TipFirst(t, recs) ==
    LET active == active_leaf(t, recs) IN
    IF active = 0 THEN [error |-> "404", messages |-> <<>>]
    ELSE [error |-> "none",
          messages |-> MessagesLoop(recs,
                          walk_path(t, recs, recs[active].uuid).path, 1)]

\* get_messages: 404 without an active leaf, else the messages of its path
get_messages(t, recs) ==
    LET active == active_leaf(t, recs) IN
    IF active = 0 THEN [error |-> "404", messages |-> <<>>]
    ELSE [error |-> "none",
          messages |-> MessagesLoop(recs,
                          reverse(walk_path(t, recs, recs[active].uuid).path), 1)]

\* GET /api/sessions/{session_id}/leaves
GetLeaves ==
    /\ tree_cache' = <<tree>>
    /\ answer' = [NoAnswer EXCEPT !.q = "get_leaves",
                                   !.path = get_leaves(tree, records)]
    /\ UNCHANGED <<records, file, writes, writerVars, watcherVars>>

\* GET /api/sessions/{session_id}/messages
GetMessages ==
    /\ tree_cache' = <<tree>>
    /\ LET m == get_messages(tree, records) IN
        answer' = [NoAnswer EXCEPT !.q = "get_messages", !.error = m.error,
                                   !.path = m.messages]
    /\ UNCHANGED <<records, file, writes, writerVars, watcherVars>>

\* a Conversation loaded from a session file, not yet queried
InitApi ==
    /\ NoWatcher
    /\ records \in ApiLogs
    /\ tree_cache = <<>>
    /\ answer = NoAnswer
    /\ session = NoSession
    /\ forkFile = NoFile

NextApi ==
    \/ Leaves
    \/ \E uid \in Ids : WalkPath(uid)
    \/ ActiveLeaf
    \/ GetLeaves
    \/ GetMessages

\* the navigator and the session API on logs with records of every type
SpecApi == InitApi /\ [][NextApi]_vars

\* ---------------------------------------------------------------- C34
\* C34: the entry active_leaf returns is one of the entries leaves returns,
\* and get_leaves flags exactly one leaf as active when there is an active
\* leaf.
C34_ActiveIsALeaf ==
    LET t == build(records) IN
    /\ (answer.q = "active_leaf" /\ answer.entry # 0) =>
          \E i \in 1..Len(leaves(t)) : leaves(t)[i] = answer.entry
    /\ (answer.q = "get_leaves" /\ active_leaf(t, records) # 0) =>
          Cardinality({i \in 1..Len(answer.path) : answer.path[i].is_active}) = 1


\* ---------------------------------------------------------------- C35
\* C35: leaves returns exactly the last occurrences of the identifiers that
\* no last occurrence of a tree entry names as parentUuid; the parentUuid
\* of an earlier, superseded occurrence does not count.
C35_LeafIffUnreferenced ==
    answer.q = "leaves" =>
        \A k \in TreePositions(records) :
            (\E i \in 1..Len(answer.path) : answer.path[i] = k) <=>
                /\ k \in Authoritative(records)
                /\ \A j \in Authoritative(records) :
                      records[j].parentUuid # records[k].uuid


\* ---------------------------------------------------------------- C36
\* C36: every entry of the index, of a leaves answer, of a walk_path answer
\* and every active leaf is a record of one of the four tree types, and the
\* uuid of a SummaryEntry that no tree entry carries is not a key of the
\* index and has an empty walk_path.
C36_OnlyTreeKinds ==
    /\ tree_cache # <<>> =>
          \A u \in DOMAIN tree_cache[1].by_uuid :
              \A i \in 1..Len(tree_cache[1].by_uuid[u]) :
                  records[tree_cache[1].by_uuid[u][i]].kind \in TreeKinds
    /\ answer.q \in {"leaves", "walk_path"} =>
          \A i \in 1..Len(answer.path) : records[answer.path[i]].kind \in TreeKinds
    /\ (answer.q = "active_leaf" /\ answer.entry # 0) =>
          records[answer.entry].kind \in TreeKinds
    /\ \A k \in 1..Len(records) :
          (records[k].kind = "summary" /\ records[k].uuid \notin TreeIds(records)) =>
              /\ tree_cache # <<>> => tree_cache[1].by_uuid[records[k].uuid] = <<>>
              /\ (answer.q = "walk_path" /\ answer.arg = records[k].uuid) =>
                    answer.path = <<>>

\* walk_path was asked for the uuid of a SummaryEntry that a tree entry
\* names as its parent and no tree entry carries, on a log that also holds
\* a record of another type
C36_Witness ==
    /\ answer.q = "walk_path"
    /\ \E k, j, o \in 1..Len(records) :
          /\ records[k].kind = "summary"
          /\ records[k].uuid = answer.arg
          /\ records[k].uuid \notin TreeIds(records)
          /\ records[j].kind \in TreeKinds
          /\ records[j].parentUuid = records[k].uuid
          /\ records[o].kind \in {"queue-operation", "custom-title", "pr-link",
                                  "file-history-snapshot"}


\* ---------------------------------------------------------------- C37
\* C37: get_messages answers 404 exactly when active_leaf is None; else it
\* returns one message for every UserEntry and AssistantEntry of
\* walk_path(active_leaf), with the role of the entry, in the reverse of
\* walk_path's order (root first), and none for a Progress or System entry.
C37_MessagesOfActivePath ==
    answer.q = "get_messages" =>
        LET t      == build(records)
            active == active_leaf(t, records)
        IN
        /\ answer.error = "404" <=> active = 0
        /\ active = 0 => answer.path = <<>>
        /\ active # 0 =>
              LET ua == UserAndAssistant(records,
                            walk_path(t, records, records[active].uuid).path)
              IN
              /\ Len(answer.path) = Len(ua)
              /\ \A i \in 1..Len(ua) :
                    /\ answer.path[i].entry = ua[Len(ua) + 1 - i]
                    /\ answer.path[i].role = records[ua[Len(ua) + 1 - i]].kind

\* get_messages has answered two messages, a user turn and then the
\* assistant turn that descends from it through a Progress or System entry
C37_Witness ==
    /\ answer.q = "get_messages"
    /\ Len(answer.path) = 2
    /\ answer.path[1].role = "user"
    /\ answer.path[2].role = "assistant"
    /\ \E k \in 1..Len(records) :
          /\ records[k].kind \in {"progress", "system"}
          /\ records[k].uuid = records[answer.path[2].entry].parentUuid
          /\ records[k].parentUuid = records[answer.path[1].entry].uuid


\* ------------------------------------------------- the relay bridge
\* Model of bridge_loop of src/server.py.  The bridge is a task of a process
\* that runs neither the watcher nor the navigator; its state is kept in the
\* variable answer, read here as bridge:
\*   pc         where the loop is: "poll" (line 33), "request" (line 42),
\*              "respond" (line 49), "respond502" (line 63), "sleep" (line 76)
\*   requests   data.get("requests", []) of the last poll, as request ids
\*   i          the position in requests of the loop variable req
\*   polls      the polls made
\*   forwarded  the ids whose local.request returned a response
\*   responses  the responses the relay has received, in order, as
\*              [id, status] with status "local" or "502"
MaxPolls == 2

MaxBatch == 2

bridge == answer

\* the result of an await on an HTTP call to the relay: it returns; it
\* raises and the relay has not received the message; it raises (read
\* timeout) after the relay has received the message
Outcomes == {"ok", "lost", "late"}

InitBridge ==
    /\ NoWatcher
    /\ records = <<>>
    /\ tree_cache = <<>>
    /\ session = NoSession
    /\ forkFile = NoFile
    /\ bridge = [pc |-> "poll", requests |-> <<>>, i |-> 0, polls |-> 0,
                 forwarded |-> {}, responses |-> <<>>]

bridgeFrame == <<records, tree_cache, file, writes, writerVars, watcherVars>>

\* the id of the request at position k of the n-th poll
RequestId(n, k) == (n - 1) * MaxBatch + k

\* lines 33-39: the poll returns size pending requests, or raises
Poll(size, ok) ==
    /\ bridge.pc = "poll"
    /\ bridge.polls < MaxPolls
    /\ bridge' =
          IF ok /\ size > 0
          THEN [bridge EXCEPT !.pc = "request", !.polls = @ + 1, !.i = 1,
                   !.requests = [k \in 1..size |-> RequestId(bridge.polls + 1, k)]]
          ELSE [bridge EXCEPT !.pc = "sleep", !.polls = @ + 1, !.i = 0,
                              !.requests = <<>>]
    /\ UNCHANGED bridgeFrame

\* the for loop goes to the next request, or ends
NextRequest(b) ==
    IF b.i < Len(b.requests) THEN [b EXCEPT !.pc = "request", !.i = @ + 1]
    ELSE [b EXCEPT !.pc = "sleep"]

\* lines 42-48: the request is forwarded to the local server
Forward(ok) ==
    /\ bridge.pc = "request"
    /\ bridge' = IF ok
                 THEN [bridge EXCEPT !.pc = "respond",
                                     !.forwarded = @ \cup {bridge.requests[bridge.i]}]
                 ELSE [bridge EXCEPT !.pc = "respond502"]
    /\ UNCHANGED bridgeFrame

\* the relay receives a response to the current request
Received(b, status) ==
    [b EXCEPT !.responses = Append(@, [id |-> b.requests[b.i], status |-> status])]

\* lines 49-61: the local response is posted; an exception is caught at
\* line 62
Respond(o) ==
    /\ bridge.pc = "respond"
    /\ bridge' = LET b == IF o = "lost" THEN bridge ELSE Received(bridge, "local") IN
                 IF o = "ok" THEN NextRequest(b) ELSE [b EXCEPT !.pc = "respond502"]
    /\ UNCHANGED bridgeFrame

\* lines 63-73: the 502 response is posted; an exception leaves the for
\* loop and is caught at line 74
Respond502(o) ==
    /\ bridge.pc = "respond502"
    /\ bridge' = LET b == IF o = "lost" THEN bridge ELSE Received(bridge, "502") IN
                 IF o = "ok" THEN NextRequest(b) ELSE [b EXCEPT !.pc = "sleep"]
    /\ UNCHANGED bridgeFrame

\* line 76: asyncio.sleep(1), then the loop polls again
Sleep ==
    /\ bridge.pc = "sleep"
    /\ bridge' = [bridge EXCEPT !.pc = "poll"]
    /\ UNCHANGED bridgeFrame

NextBridge ==
    \/ \E size \in 0..MaxBatch : \E ok \in BOOLEAN : Poll(size, ok)
    \/ \E ok \in BOOLEAN : Forward(ok)
    \/ \E o \in Outcomes : Respond(o)
    \/ \E o \in Outcomes : Respond502(o)
    \/ Sleep

SpecBridge == InitBridge /\ [][NextBridge]_vars

\* the responses the relay has received to request id
ResponsesTo(id) == SelectSeq(bridge.responses, LAMBDA r : r.id = id)

\* ---------------------------------------------------------------- C38
\* C38: when the bridge has gone through the requests of a poll, the relay
\* has received exactly one response to each of them: the local server's
\* when the request was forwarded and answered, else a 502 or, when only
\* the post of the local response failed, a 502 in its place.
C38_OneResponseEach ==
    bridge.pc = "sleep" =>
        \A k \in 1..Len(bridge.requests) :
            LET rs == ResponsesTo(bridge.requests[k]) IN
            /\ Len(rs) = 1
            /\ rs[1].status = "local" => bridge.requests[k] \in bridge.forwarded


\* ------------------------------------------- the live audio pipeline
\* Model of the tasks receive and play of run_concurrent of src/live.py in
\* mic mode (sim is False).  The pipeline is a process of its own; its state
\* is kept in the variable session, read here as live:
\*   pc       where receive is: "turn" (in the async for of line 190),
\*            "drain" (the turn's iterator has ended, line 219), "closed"
\*   turn     the number of the turn being received
\*   n        the audio chunks received in this turn
\*   ended    how each ended turn ended: "complete" or "interrupted"
\*   queue    speaker_queue, chunks as [turn, n]
\*   hand     the chunk play has taken and not yet written, or NoChunk
\*   written  the chunks written to the speaker, in order
MaxAudioTurns == 2

MaxChunks == 2

live == session

NoChunk == [turn |-> 0, n |-> 0]

InitLive ==
    /\ NoWatcher
    /\ records = <<>>
    /\ tree_cache = <<>>
    /\ answer = NoAnswer
    /\ forkFile = NoFile
    /\ live = [pc |-> "turn", turn |-> 1, n |-> 0, ended |-> <<>>,
               queue |-> <<>>, hand |-> NoChunk, written |-> <<>>]

liveFrame == <<convVars, file, writes, forkFile, watcherVars>>

\* lines 191-205: a response with an audio part; the chunk is queued
ReceiveChunk ==
    /\ live.pc = "turn"
    /\ live.n < MaxChunks
    /\ live' = [live EXCEPT !.n = @ + 1,
                  !.queue = Append(@, [turn |-> live.turn, n |-> live.n + 1])]
    /\ UNCHANGED liveFrame

\* lines 211-215: the last response of the turn, which the model completed
\* or the user interrupted; the turn's iterator then ends
TurnEnds(how) ==
    /\ live.pc = "turn"
    /\ live' = [live EXCEPT !.pc = "drain", !.ended = Append(@, how)]
    /\ UNCHANGED liveFrame

\* lines 218-221, reached when the async for is left: the queue is emptied;
\* line 189: the next turn
Drain ==
    /\ live.pc = "drain"
    /\ live' = [live EXCEPT !.queue = <<>>, !.n = 0, !.turn = @ + 1,
                  !.pc = IF live.turn < MaxAudioTurns THEN "turn" ELSE "closed"]
    /\ UNCHANGED liveFrame

\* line 236: play takes the next chunk
PlayGet ==
    /\ live.hand = NoChunk
    /\ live.queue # <<>>
    /\ live' = [live EXCEPT !.hand = Head(live.queue), !.queue = Tail(@)]
    /\ UNCHANGED liveFrame

\* line 237: the chunk is written to the speaker
PlayWrite ==
    /\ live.hand # NoChunk
    /\ live' = [live EXCEPT !.written = Append(@, live.hand), !.hand = NoChunk]
    /\ UNCHANGED liveFrame

NextAudio ==
    \/ ReceiveChunk
    \/ \E how \in {"complete", "interrupted"} : TurnEnds(how)
    \/ Drain
    \/ PlayGet
    \/ PlayWrite

SpecAudio == InitLive /\ [][NextAudio]_vars

\* ---------------------------------------------------------------- C39
\* C39: a chunk leaves the speaker queue only into the hands of play, or
\* when it is discarded at the end of an interrupted turn: no chunk of a
\* turn that completed normally is discarded.
C39_DrainOnlyOnInterruption ==
    [][\A k \in 1..Len(live.queue) :
          LET chunk == live.queue[k] IN
          (/\ \A j \in 1..Len(live'.queue) : live'.queue[j] # chunk
           /\ live'.hand # chunk)
             => /\ chunk.turn <= Len(live.ended)
                /\ live.ended[chunk.turn] = "interrupted"]_vars

====
